---- MODULE Spec2Model ----
(***************************************************************************)
(* Model of main.py: the POST /run endpoint (run_task), the GET /read      *)
(* endpoint (read_file) and the TaskHandler operations, each operation     *)
(* under a specification of its own.                                       *)
(*                                                                         *)
(* Strings are sequences of one-character strings, so that the regular     *)
(* expression of run_task and the startswith tests of read_file and        *)
(* handle_api_fetch are computed character by character.                   *)
(***************************************************************************)
EXTENDS Integers, Sequences, FiniteSets, TLC

VARIABLES
    task,        \* /run: the task description (query parameter), a string
    phase,       \* /run: position of the request in run_task
    history,     \* /run: the phases the request has been in, in order
    invoked,     \* /run: the operations invoked so far, in order
    aiCalls,     \* /run: number of AIProxy.get_completion calls so far
    response,    \* /run: the HTTP response delivered to the caller
    rd,          \* /read: the request and its outcome
    fetch,       \* handle_api_fetch: completion output and the write done
    tickets,     \* handle_ticket_sales: the table and the file written
    logs,        \* handle_recent_logs: the directory and the file written
    contacts     \* handle_sort_contacts: the input file and the outcome

runVars == <<task, phase, history, invoked, aiCalls, response>>
opVars  == <<rd, fetch, tickets, logs, contacts>>
vars    == <<task, phase, history, invoked, aiCalls, response,
             rd, fetch, tickets, logs, contacts>>

None == "None"

----------------------------------------------------------------------------
(* Bounds *)

\* number of vocabulary segments a task description is built from
MaxSegs == 3

----------------------------------------------------------------------------
(* Characters and strings *)

LowerAlphabet ==
    <<"a","b","c","d","e","f","g","h","i","j","k","l","m",
      "n","o","p","q","r","s","t","u","v","w","x","y","z">>

UpperAlphabet ==
    <<"A","B","C","D","E","F","G","H","I","J","K","L","M",
      "N","O","P","Q","R","S","T","U","V","W","X","Y","Z">>

\* re.IGNORECASE folds the letter of the subject before comparing
ToLower(c) ==
    IF \E i \in 1..26 : UpperAlphabet[i] = c
    THEN LowerAlphabet[CHOOSE i \in 1..26 : UpperAlphabet[i] = c]
    ELSE c

\* Characters outside ASCII whose case variants are i, s and k: dotted capital
\* I, dotless i, long s and the Kelvin sign.  Under re.IGNORECASE a str
\* pattern's class [a-z] matches them as well.
CaseVariants == {"U+0130", "U+0131", "U+017F", "U+212A"}

\* the class [a-z] under (?i)
IsLetter(c) ==
    \/ \E i \in 1..26 : LowerAlphabet[i] = ToLower(c)
    \/ c \in CaseVariants

\* str.startswith
StartsWith(s, p) ==
    /\ Len(s) >= Len(p)
    /\ \A k \in 1..Len(p) : s[k] = p[k]

\* s[i:] starts with p, ignoring case (the lookahead of the regex)
MatchesAtFold(s, i, p) ==
    /\ i + Len(p) - 1 <= Len(s)
    /\ \A k \in 1..Len(p) : ToLower(s[i + k - 1]) = p[k]

\* p in s
Contains(s, p) ==
    \E i \in 1..(Len(s) - Len(p) + 1) :
        \A k \in 1..Len(p) : s[i + k - 1] = p[k]

RECURSIVE Flatten(_)
Flatten(segs) ==
    IF segs = <<>> THEN <<>> ELSE Head(segs) \o Flatten(Tail(segs))

RECURSIVE SeqsUpTo(_, _)
SeqsUpTo(S, n) ==
    IF n = 0 THEN {<<>>}
    ELSE LET shorter == SeqsUpTo(S, n - 1)
         IN  shorter \cup {Append(q, x) : q \in shorter, x \in S}

DataSlash == <<"/","d","a","t","a","/">>

----------------------------------------------------------------------------
(* POST /run : the description-level security check *)

\* re.search(r'(?i)/(?!data/)[a-z]+/', task)
SecurityRegex(t) ==
    \E i \in 1..Len(t) :
        /\ t[i] = "/"
        /\ ~MatchesAtFold(t, i + 1, <<"d","a","t","a","/">>)
        /\ \E j \in (i + 2)..Len(t) :
              /\ t[j] = "/"
              /\ \A k \in (i + 1)..(j - 1) : IsLetter(t[k])


\* The segments task descriptions are built from: path-like pieces inside and
\* outside /data (one of them spelt with a long s), separators, and the words
\* the classifier looks for.
Vocabulary ==
    { <<"/","d","a","t","a">>, <<"/","e","t","c">>, <<"/","E","T","C">>,
      <<"/","l","o","g","s">>, <<"/","a",".","l","o","g">>, <<"/","p","a","s","s","w","d">>,
      <<"/","U+017F">>, <<"/">>, <<" ">>,
      <<"s","o","r","t">>, <<"i","n","d","e","x">>, <<"e","m","a","i","l">>, <<"c","a","r","d">>,
      <<"g","o","l","d">>, <<"f","e","t","c","h">>, <<"g","i","t">> }

Descriptions == {Flatten(q) : q \in SeqsUpTo(Vocabulary, MaxSegs)}

----------------------------------------------------------------------------
(* The operations of TaskHandler *)

Operations ==
    { "handle_sort_contacts", "handle_recent_logs", "handle_extract_headers",
      "handle_extract_email", "handle_extract_card", "handle_ticket_sales",
      "handle_api_fetch", "handle_git_operations" }

----------------------------------------------------------------------------
(* POST /run : responses *)

NoBody == [detail |-> None]

NoResponse == [status |-> 0, kind |-> "pending", body |-> NoBody]

\* Python's class hierarchy: json.JSONDecodeError and UnicodeDecodeError are
\* subclasses of ValueError; HTTPException is a subclass of Exception only.
IsValueError(class) ==
    class \in {"ValueError", "JSONDecodeError", "UnicodeDecodeError"}

\* The except clauses of run_task: ValueError -> 400, any other Exception
\* (the HTTPException raised inside the try block included) -> 500.
ExceptStatus(class) == IF IsValueError(class) THEN 400 ELSE 500

\* raise HTTPException(status_code=..., detail=str(e)); origin is the place
\* the exception e came from, which the detail string tells the caller.
ExceptResponse(class, origin) ==
    [status |-> ExceptStatus(class), kind |-> origin,
     body |-> [detail |-> class]]

----------------------------------------------------------------------------
(* The patterns of the registered intents.  run_task calls                 *)
(* task_handler.handle_task, which main.py does not define, so no action   *)
(* of the model classifies; the statements about matching descriptions     *)
(* take the patterns from the design: keywords in a fixed priority order.  *)

Registry ==
    << [id |-> "handle_sort_contacts",   word |-> <<"s","o","r","t">>],
       [id |-> "handle_recent_logs",     word |-> <<"l","o","g","s">>],
       [id |-> "handle_extract_headers", word |-> <<"i","n","d","e","x">>],
       [id |-> "handle_extract_email",   word |-> <<"e","m","a","i","l">>],
       [id |-> "handle_extract_card",    word |-> <<"c","a","r","d">>],
       [id |-> "handle_ticket_sales",    word |-> <<"g","o","l","d">>],
       [id |-> "handle_api_fetch",       word |-> <<"f","e","t","c","h">>],
       [id |-> "handle_git_operations",  word |-> <<"g","i","t">>] >>

classify(t) ==
    LET hits == {i \in 1..Len(Registry) : Contains(t, Registry[i].word)}
    IN  IF hits = {} THEN None
        ELSE Registry[CHOOSE i \in hits : \A j \in hits : i <= j].id

----------------------------------------------------------------------------
(* Idle values of the variables of the other specifications *)

IdleRead    == [pc |-> "idle"]
IdleFetch   == [pc |-> "idle"]
IdleTickets == [pc |-> "idle"]
IdleLogs    == [pc |-> "idle"]
IdleContacts == [pc |-> "idle"]

\* no /run request
IdleRun ==
    /\ task = <<>> /\ phase = "Idle" /\ history = <<>>
    /\ invoked = <<>> /\ aiCalls = 0 /\ response = NoResponse

----------------------------------------------------------------------------
(* POST /run as main.py has it *)

InitRun ==
    /\ task \in Descriptions
    /\ phase = "Received"
    /\ history = <<"Received">>
    /\ invoked = <<>>
    /\ aiCalls = 0
    /\ response = NoResponse

Init ==
    /\ InitRun
    /\ rd = IdleRead /\ fetch = IdleFetch
    /\ tickets = IdleTickets /\ logs = IdleLogs /\ contacts = IdleContacts

GoTo(p) ==
    /\ phase' = p
    /\ history' = Append(history, p)

\* lines 232-238 and 246-247: the check, and what becomes of its
\* HTTPException(400) in the except clauses of the same try block
SecurityCheck ==
    /\ phase = "Received"
    /\ IF SecurityRegex(task)
       THEN /\ GoTo("Failed")
            /\ response' = ExceptResponse("HTTPException", "security_check")
       ELSE /\ GoTo("SecurityChecked")
            /\ UNCHANGED response
    /\ UNCHANGED <<task, invoked, aiCalls>>
    /\ UNCHANGED opVars

\* line 241 as it stands: TaskHandler has no attribute handle_task, the
\* lookup raises AttributeError, which line 246 turns into a 500
HandleTaskMissing ==
    /\ phase = "SecurityChecked"
    /\ GoTo("Failed")
    /\ response' = ExceptResponse("AttributeError", "handle_task")
    /\ UNCHANGED <<task, invoked, aiCalls>>
    /\ UNCHANGED opVars

Next ==
    \/ SecurityCheck
    \/ HandleTaskMissing

Spec == Init /\ [][Next]_vars

----------------------------------------------------------------------------
(* Claims about POST /run *)

Terminal == phase \in {"Completed", "Failed"}

\* The whitespace-separated tokens of a description.
TokenStarts(t) ==
    {i \in 1..Len(t) : t[i] # " " /\ (i = 1 \/ t[i - 1] = " ")}

TokenEnd(t, i) ==
    CHOOSE j \in i..Len(t) :
        /\ \A k \in i..j : t[k] # " "
        /\ (j = Len(t) \/ t[j + 1] = " ")

Tokens(t) == {SubSeq(t, i, TokenEnd(t, i)) : i \in TokenStarts(t)}

UnderData(tok) == StartsWith(tok, DataSlash) \/ tok = <<"/","d","a","t","a">>

\* the description names an absolute path that is not under /data
ReferencesOutside(t) ==
    \E tok \in Tokens(t) : tok[1] = "/" /\ ~UnderData(tok)

\* every token of the description that has a "/" in it is a path under /data
AllPathsUnderData(t) ==
    \A tok \in Tokens(t) : Contains(tok, <<"/">>) => UnderData(tok)

\* C1: a request whose description references a path outside /data ends in
\* Failed with the sandbox violation of the security check, and no operation
\* was invoked.
C1_Claim ==
    (Terminal /\ ReferencesOutside(task)) =>
        /\ phase = "Failed"
        /\ response.kind = "security_check"
        /\ invoked = <<>>

\* C2: a rejection by the security check is delivered with status 400.
C2_Claim ==
    response.kind = "security_check" => response.status = 400

\* C3: a description the security check lets through and that matches a
\* registered intent's pattern ends with exactly that intent's operation
\* invoked; one that matches no pattern (the empty one included) ends in
\* Failed as an unrecognized task with no operation invoked.
C3_Claim ==
    (Terminal /\ ~SecurityRegex(task)) =>
        IF classify(task) # None
        THEN invoked = <<classify(task)>>
        ELSE /\ phase = "Failed"
             /\ response.kind = "classifier"
             /\ invoked = <<>>

\* C10: a description all of whose path tokens lie under /data is not
\* rejected by the security check.
C10_Claim ==
    AllPathsUnderData(task) => response.kind # "security_check"

\* No request to /run gets as far as an operation or the completion service:
\* an invariant of Spec.
NoOperationRuns == invoked = <<>> /\ aiCalls = 0

PhaseChain == <<"Received", "SecurityChecked", "Classified", "Executing">>

ValidHistory ==
    \E k \in 1..Len(PhaseChain) :
        \/ history = SubSeq(PhaseChain, 1, k)
        \/ history = Append(SubSeq(PhaseChain, 1, k), "Failed")
        \/ history = Append(PhaseChain, "Completed")

Passed(p) == \E k \in 1..Len(history) : history[k] = p

\* C8: the phases of a request are a prefix of Received, SecurityChecked,
\* Classified, Executing, closed by exactly one of Completed or Failed; a
\* request the security check lets through and whose description matches a
\* registered intent has passed through Classified and Executing when it
\* ends; the operation and the completion service are each invoked at most
\* once; a request that ends in Completed carries the success envelope.
C8_Claim ==
    /\ ValidHistory
    /\ Len(invoked) <= 1
    /\ aiCalls <= 1
    /\ (Terminal /\ ~SecurityRegex(task) /\ classify(task) # None) =>
          Passed("Classified") /\ Passed("Executing")
    /\ phase = "Completed" =>
          response.status = 200 /\ response.kind = "success"

----------------------------------------------------------------------------
(* The file system as open() and os.path.exists() see it *)

\* number of vocabulary segments a path is built from
MaxPathSegs == 4

PathVocabulary ==
    { <<"/","d","a","t","a">>, <<"/","e","t","c">>, <<"/",".",".">>, <<"/","a">>,
      <<"/","l","i","n","k">>, <<"/","x">>, <<"/">>,
      <<".",".">>, <<"x">> }

PathStrings == {Flatten(q) : q \in SeqsUpTo(PathVocabulary, MaxPathSegs)}

\* str.split("/")
RECURSIVE SplitSlash(_, _)
SplitSlash(s, cur) ==
    IF s = <<>> THEN <<cur>>
    ELSE IF Head(s) = "/" THEN <<cur>> \o SplitSlash(Tail(s), <<>>)
    ELSE SplitSlash(Tail(s), Append(cur, Head(s)))

n_data == <<"d","a","t","a">>
n_etc  == <<"e","t","c">>
n_a    == <<"a">>
n_link == <<"l","i","n","k">>
n_x    == <<"x">>

\* The tree the requests start from: /data/a and /etc/a are files and
\* /data/link is a symbolic link to /etc.  Locations are sequences of names.
BaseFs ==
    [dirs  |-> { <<>>, <<n_data>>, <<n_etc>> },
     files |-> { <<n_data, n_a>>, <<n_etc, n_a>> },
     links |-> { [at |-> <<n_data, n_link>>, to |-> <<n_etc>>] }]

LinkAt(fs, loc) == {l \in fs.links : l.at = loc}

LinkTarget(fs, loc) == (CHOOSE l \in fs.links : l.at = loc).to

\* no location: the path does not resolve
Missing == << <<"?">> >>

Parent(loc) == IF loc = <<>> THEN <<>> ELSE SubSeq(loc, 1, Len(loc) - 1)

\* Kernel path walk: "" and "." stay, ".." goes to the parent of the
\* directory reached, a symbolic link is followed, and any component below
\* something that is not a directory fails.
RECURSIVE Walk(_, _, _)
Walk(fs, loc, comps) ==
    IF comps = <<>> THEN loc
    ELSE IF loc \notin fs.dirs THEN Missing
    ELSE LET c == Head(comps)
             child == Append(loc, c)
         IN  IF c = <<>> \/ c = <<".">> THEN Walk(fs, loc, Tail(comps))
             ELSE IF c = <<".", ".">> THEN Walk(fs, Parent(loc), Tail(comps))
             ELSE IF LinkAt(fs, child) # {}
                  THEN Walk(fs, LinkTarget(fs, child), Tail(comps))
             ELSE IF child \in fs.dirs \cup fs.files
                  THEN Walk(fs, child, Tail(comps))
             ELSE Missing

\* Where a path leads.  A relative path starts at the working directory,
\* taken to be /.
Resolve(fs, path) ==
    IF path = <<>> THEN Missing ELSE Walk(fs, <<>>, SplitSlash(path, <<>>))

InsideSandbox(loc) == loc # Missing /\ Len(loc) >= 1 /\ loc[1] = n_data

----------------------------------------------------------------------------
(* GET /read *)

InitRead ==
    /\ \E p \in PathStrings : rd = [pc |-> "start", path |-> p]
    /\ IdleRun
    /\ fetch = IdleFetch /\ tickets = IdleTickets /\ logs = IdleLogs
    /\ contacts = IdleContacts

\* read_file: prefix test, existence test, open and read; the function has
\* no await, so nothing runs in between
read_file(fs, path) ==
    IF ~StartsWith(path, DataSlash)
    THEN [status |-> 400, read |-> Missing]
    ELSE IF Resolve(fs, path) = Missing           \* not os.path.exists(path)
    THEN [status |-> 404, read |-> Missing]
    ELSE IF Resolve(fs, path) \in fs.dirs         \* open() raises IsADirectoryError
    THEN [status |-> 500, read |-> Missing]
    ELSE [status |-> 200, read |-> Resolve(fs, path)]

ReadFile ==
    /\ rd.pc = "start"
    /\ rd' = [pc |-> "done", path |-> rd.path,
              status |-> read_file(BaseFs, rd.path).status,
              read |-> read_file(BaseFs, rd.path).read]
    /\ UNCHANGED runVars
    /\ UNCHANGED <<fetch, tickets, logs, contacts>>

NextRead == ReadFile

SpecRead == InitRead /\ [][NextRead]_vars

\* C4: content is returned only for an existing file inside /data; a path
\* that leads outside /data gets 400 and nothing is read; a path inside
\* /data that does not exist gets 404.
C4_Claim ==
    rd.pc = "done" =>
        /\ rd.read # Missing => InsideSandbox(rd.read)
        /\ (Resolve(BaseFs, rd.path) # Missing
              /\ ~InsideSandbox(Resolve(BaseFs, rd.path))) =>
              rd.status = 400 /\ rd.read = Missing
        /\ (StartsWith(rd.path, DataSlash) /\ Resolve(BaseFs, rd.path) = Missing) =>
              rd.status = 404

----------------------------------------------------------------------------
(* handle_api_fetch: where the fetched data is written.  The operation     *)
(* suspends at get_completion (line 184), at session.get (line 191) and at *)
(* response.text() (line 192); other tasks of the event loop run then.     *)

\* output: the "output" of the JSON the completion service will answer with
InitFetch ==
    /\ \E o \in PathStrings :
          fetch = [pc |-> "await_completion", output |-> o, path |-> <<>>,
                   fs |-> BaseFs, written |-> Missing]
    /\ IdleRun
    /\ rd = IdleRead /\ tickets = IdleTickets /\ logs = IdleLogs
    /\ contacts = IdleContacts

\* lines 187-188: params['output'] after the prefix step
OutputPath(output) ==
    IF ~StartsWith(output, DataSlash) THEN DataSlash \o output ELSE output

\* open(path, 'w'): the location written, or Missing when open raises (the
\* directory does not exist, or the path names a directory)
OpenForWrite(fs, path) ==
    LET comps == SplitSlash(path, <<>>)
        dir   == Walk(fs, <<>>, SubSeq(comps, 1, Len(comps) - 1))
        name  == comps[Len(comps)]
        whole == Walk(fs, <<>>, comps)
    IN  IF whole \in fs.files THEN whole
        ELSE IF whole \in fs.dirs THEN Missing
        ELSE IF dir \in fs.dirs /\ name \notin {<<>>, <<".">>, <<".", ".">>}
                /\ LinkAt(fs, Append(dir, name)) = {}
             THEN Append(dir, name)
        ELSE Missing

\* lines 184-191: the completion returns, the path is computed, the
\* operation suspends in session.get
ApiFetchParams ==
    /\ fetch.pc = "await_completion"
    /\ fetch' = [fetch EXCEPT !.pc = "await_get",
                              !.path = OutputPath(fetch.output)]
    /\ UNCHANGED runVars
    /\ UNCHANGED <<rd, tickets, logs, contacts>>

\* lines 191-192: the response arrives, the operation suspends in
\* response.text()
ApiFetchGet ==
    /\ fetch.pc = "await_get"
    /\ fetch' = [fetch EXCEPT !.pc = "await_text"]
    /\ UNCHANGED runVars
    /\ UNCHANGED <<rd, tickets, logs, contacts>>

\* lines 194-197: open the path for writing and write
ApiFetchWrite ==
    /\ fetch.pc = "await_text"
    /\ LET loc == OpenForWrite(fetch.fs, fetch.path)
       IN  fetch' = [fetch EXCEPT
                       !.pc = "done",
                       !.written = loc,
                       !.fs = IF loc = Missing THEN @
                              ELSE [@ EXCEPT !.files = @ \cup {loc}]]
    /\ UNCHANGED runVars
    /\ UNCHANGED <<rd, tickets, logs, contacts>>

Suspended == fetch.pc \in {"await_completion", "await_get", "await_text"}

\* another task, while the operation is suspended: os.symlink('/etc/a', '/data/x')
OtherTaskSymlink ==
    /\ Suspended
    /\ <<n_data, n_x>> \notin fetch.fs.files \cup fetch.fs.dirs
    /\ LinkAt(fetch.fs, <<n_data, n_x>>) = {}
    /\ fetch' = [fetch EXCEPT !.fs.links =
                    @ \cup {[at |-> <<n_data, n_x>>, to |-> <<n_etc, n_a>>]}]
    /\ UNCHANGED runVars
    /\ UNCHANGED <<rd, tickets, logs, contacts>>

\* another task, while the operation is suspended: os.remove('/data/a')
OtherTaskRemove ==
    /\ Suspended
    /\ <<n_data, n_a>> \in fetch.fs.files
    /\ fetch' = [fetch EXCEPT !.fs.files = @ \ {<<n_data, n_a>>}]
    /\ UNCHANGED runVars
    /\ UNCHANGED <<rd, tickets, logs, contacts>>

NextFetch ==
    \/ ApiFetchParams
    \/ ApiFetchGet
    \/ ApiFetchWrite
    \/ OtherTaskSymlink
    \/ OtherTaskRemove

SpecFetch == InitFetch /\ [][NextFetch]_vars

\* C5: whatever output path the completion service returns, the file the
\* operation writes lies inside /data.
C5_Claim ==
    (fetch.pc = "done" /\ fetch.written # Missing) => InsideSandbox(fetch.written)

----------------------------------------------------------------------------
(* Python's str() of the values written to files *)

Digits == <<"0","1","2","3","4","5","6","7","8","9">>

\* str(n) for an int n >= 0
RECURSIVE IntToStr(_)
IntToStr(n) ==
    IF n < 10 THEN <<Digits[n + 1]>>
    ELSE Append(IntToStr(n \div 10), Digits[(n % 10) + 1])

IsDigit(c) == \E i \in 1..10 : Digits[i] = c

----------------------------------------------------------------------------
(* handle_ticket_sales *)

\* rows of the tickets table
MaxRows == 3
\* units sold per row range over 0..MaxUnits
MaxUnits == 2

TicketTypes == {"Gold", "Silver"}
Prices == {0, 7, 60}

TicketRows == [type : TicketTypes, units : 0..MaxUnits, price : Prices]

Tables == SeqsUpTo(TicketRows, MaxRows)

RECURSIVE SumGold(_)
SumGold(rows) ==
    IF rows = <<>> THEN 0
    ELSE (IF Head(rows).type = "Gold" THEN Head(rows).units * Head(rows).price ELSE 0)
         + SumGold(Tail(rows))

\* SELECT SUM(units * price) FROM tickets WHERE type = 'Gold'; fetchone()[0].
\* SUM over no rows is NULL, which sqlite3 hands to Python as None.
SelectSumGold(rows) ==
    IF \E i \in 1..Len(rows) : rows[i].type = "Gold"
    THEN [null |-> FALSE, value |-> SumGold(rows)]
    ELSE [null |-> TRUE, value |-> 0]

\* str(total_sales)
StrTotal(total) ==
    IF total.null THEN <<"N","o","n","e">> ELSE IntToStr(total.value)

InitTickets ==
    /\ \E t \in Tables : tickets = [pc |-> "start", rows |-> t]
    /\ IdleRun
    /\ rd = IdleRead /\ fetch = IdleFetch /\ logs = IdleLogs
    /\ contacts = IdleContacts

TicketSales ==
    /\ tickets.pc = "start"
    /\ tickets' = [pc |-> "done", rows |-> tickets.rows,
                   written |-> StrTotal(SelectSumGold(tickets.rows)),
                   total_sales |-> SelectSumGold(tickets.rows)]
    /\ UNCHANGED runVars
    /\ UNCHANGED <<rd, fetch, logs, contacts>>

NextTickets == TicketSales

SpecTickets == InitTickets /\ [][NextTickets]_vars

IsPlainNumber(s) == s # <<>> /\ \A k \in 1..Len(s) : IsDigit(s[k])

\* C7: the file written holds a plain number; it is the sum of units * price
\* over the Gold rows whenever there is such a row, and still a plain number
\* when there is none.
C7_Claim ==
    tickets.pc = "done" =>
        /\ IsPlainNumber(tickets.written)
        /\ (\E i \in 1..Len(tickets.rows) : tickets.rows[i].type = "Gold") =>
              tickets.written = IntToStr(SumGold(tickets.rows))

----------------------------------------------------------------------------
(* handle_recent_logs *)

\* number of *.log files in /data/logs/
MaxLogs == 11
\* modification times range over 1..MaxMtime
MaxMtime == 2

\* [:10]
TopN == 10

\* What f.readline() returns for the i-th file of the listing: the line with
\* its terminator; padded with blanks, without terminator and wrapped in
\* other whitespace, empty (an empty file) or a bare terminator.
FirstLineRaw(i) ==
    CASE i % 4 = 1 -> <<"L">> \o IntToStr(i) \o <<"\n">>
      [] i % 4 = 2 -> <<" ", "L">> \o IntToStr(i) \o <<" ", "x", " ", "\n">>
      [] i % 4 = 3 -> <<"\f", "L">> \o IntToStr(i) \o <<"U+00A0">>
      [] OTHER     -> IF i % 8 = 0 THEN <<>> ELSE <<"\n">>

\* str.isspace: the characters str.strip() removes.  Those TLA+ has no
\* escape for are written by their code point, one string per character.
WhitespaceChars ==
    { " ", "\t", "\n", "\r", "\f", "U+000B", "U+001C", "U+001D", "U+001E",
      "U+001F", "U+0085", "U+00A0", "U+1680", "U+2000", "U+2001", "U+2002",
      "U+2003", "U+2004", "U+2005", "U+2006", "U+2007", "U+2008", "U+2009",
      "U+200A", "U+2028", "U+2029", "U+202F", "U+205F", "U+3000" }

IsSpace(c) == c \in WhitespaceChars

RECURSIVE LStrip(_)
LStrip(s) == IF s # <<>> /\ IsSpace(Head(s)) THEN LStrip(Tail(s)) ELSE s

RECURSIVE RStrip(_)
RStrip(s) ==
    IF s # <<>> /\ IsSpace(s[Len(s)]) THEN RStrip(SubSeq(s, 1, Len(s) - 1)) ELSE s

\* str.strip()
Strip(s) == RStrip(LStrip(s))

\* sep.join(parts)
RECURSIVE Join(_, _)
Join(parts, sep) ==
    IF parts = <<>> THEN <<>>
    ELSE IF Len(parts) = 1 THEN parts[1]
    ELSE parts[1] \o sep \o Join(Tail(parts), sep)

\* the newest modification time among the files of rest
Newest(rest, mtime) ==
    mtime[rest[CHOOSE k \in 1..Len(rest) :
                  \A j \in 1..Len(rest) : mtime[rest[j]] <= mtime[rest[k]]]]

Oldest(rest, mtime) ==
    mtime[rest[CHOOSE k \in 1..Len(rest) :
                  \A j \in 1..Len(rest) : mtime[rest[j]] >= mtime[rest[k]]]]

SplitAt(rest, mtime, t) ==
    [same  |-> SelectSeq(rest, LAMBDA g : mtime[g] = t),
     other |-> SelectSeq(rest, LAMBDA g : mtime[g] # t)]

\* mutation of SortedNewestFirst: reverse=True left out
RECURSIVE SortedOldestFirst(_, _)
SortedOldestFirst(rest, mtime) ==
    IF rest = <<>> THEN <<>>
    ELSE LET parts == SplitAt(rest, mtime, Oldest(rest, mtime))
         IN  parts.same \o SortedOldestFirst(parts.other, mtime)

\* sorted(log_files, key=os.path.getmtime, reverse=True): newest first, and
\* the sort being stable, files of equal time in the order of the listing
RECURSIVE SortedNewestFirst(_, _)
SortedNewestFirst(rest, mtime) ==
    IF rest = <<>> THEN <<>>
    ELSE LET parts == SplitAt(rest, mtime, Newest(rest, mtime))
         IN  parts.same \o SortedNewestFirst(parts.other, mtime)

Min(a, b) == IF a <= b THEN a ELSE b

\* recent_logs: the sorted listing cut to its first TopN entries
RecentLogs(mtime) ==
    SubSeq(SortedNewestFirst([i \in 1..Len(mtime) |-> i], mtime),
           1, Min(TopN, Len(mtime)))

\* f.readline().strip() for every file of the listing
FirstLine == [i \in 1..MaxLogs |-> Strip(FirstLineRaw(i))]

FirstLines(recent) == [k \in 1..Len(recent) |-> FirstLine[recent[k]]]

\* lines 77-87: read the first lines, write them joined, report their number
Summary(mtime, recent) ==
    [pc |-> "done", mtime |-> mtime, recent |-> recent,
     written |-> Join(FirstLines(recent), <<"\n">>),
     logs_processed |-> Len(recent)]

Listings == UNION {[1..n -> 1..MaxMtime] : n \in 0..MaxLogs}

InitLogs ==
    /\ \E m \in Listings : logs = [pc |-> "start", mtime |-> m]
    /\ IdleRun
    /\ rd = IdleRead /\ fetch = IdleFetch /\ tickets = IdleTickets
    /\ contacts = IdleContacts

RecentLogsSummary ==
    /\ logs.pc = "start"
    /\ logs' = Summary(logs.mtime, RecentLogs(logs.mtime))
    /\ UNCHANGED runVars
    /\ UNCHANGED <<rd, fetch, tickets, contacts>>

NextLogs == RecentLogsSummary

SpecLogs == InitLogs /\ [][NextLogs]_vars

\* C9: of the n log files exactly min(10, n) are selected, none of the
\* others is newer than a selected one, the selected ones are in order from
\* most to least recently modified, the file written is their first lines
\* (without the line terminator and surrounding blanks) joined by single
\* newlines in that order, and logs_processed is the number selected.
C9_Theorem ==
    logs.pc = "done" =>
        LET n   == Len(logs.mtime)
            sel == logs.recent
            chosen == {sel[k] : k \in 1..Len(sel)}
        IN  /\ Len(sel) = (IF n < 10 THEN n ELSE 10)
            /\ chosen \subseteq 1..n
            /\ Cardinality(chosen) = Len(sel)
            /\ \A i \in chosen, j \in (1..n) \ chosen :
                   logs.mtime[j] <= logs.mtime[i]
            /\ \A k \in 1..(Len(sel) - 1) :
                   logs.mtime[sel[k]] >= logs.mtime[sel[k + 1]]
            /\ logs.written =
                   Join([k \in 1..Len(sel) |-> FirstLine[sel[k]]], <<"\n">>)
            /\ logs.logs_processed = Len(sel)

\* more than ten files of different ages, and a file left out that is as new
\* as the last one selected: the cut to ten had to choose among equals
C9_Witness ==
    /\ logs.pc = "done"
    /\ Len(logs.mtime) > 10
    /\ logs.logs_processed = 10
    /\ \E i, j \in 1..Len(logs.mtime) : logs.mtime[i] < logs.mtime[j]
    /\ \E j \in 1..Len(logs.mtime) :
          /\ \A k \in 1..Len(logs.recent) : logs.recent[k] # j
          /\ logs.mtime[j] = logs.mtime[logs.recent[Len(logs.recent)]]


----------------------------------------------------------------------------
(* handle_sort_contacts *)

\* number of entries of the contacts array
MaxContacts == 2

Names == { <<"a">>, <<"a","b">>, <<"b">> }

ContactKeys == {"last_name", "first_name"}

\* The JSON objects of the array: each has some of the two keys, with
\* strings as values (an absent key's value is a filler that is never read).
ContactObjects ==
    { o \in [keys : SUBSET ContactKeys, last_name : Names, first_name : Names] :
        /\ "last_name" \notin o.keys => o.last_name = <<"a">>
        /\ "first_name" \notin o.keys => o.first_name = <<"a">> }

\* What /data/contacts.json can be: absent, not text in the expected
\* encoding, not JSON, or JSON whose top level is an array of objects, a
\* non-empty object or a number.
ContactFiles ==
    { [kind |-> k, items |-> <<>>] :
        k \in {"missing", "not_utf8", "malformed", "object", "number"} }
    \cup { [kind |-> "array", items |-> q] : q \in SeqsUpTo(ContactObjects, MaxContacts) }

Ord(c) == CHOOSE i \in 1..26 : LowerAlphabet[i] = c

\* a < b for str: by code points, a proper prefix first
RECURSIVE StrLess(_, _)
StrLess(a, b) ==
    IF b = <<>> THEN FALSE
    ELSE IF a = <<>> THEN TRUE
    ELSE IF Head(a) # Head(b) THEN Ord(Head(a)) < Ord(Head(b))
    ELSE StrLess(Tail(a), Tail(b))

\* (x['last_name'], x['first_name']) < (y['last_name'], y['first_name'])
KeyLess(x, y) ==
    \/ StrLess(x.last_name, y.last_name)
    \/ x.last_name = y.last_name /\ StrLess(x.first_name, y.first_name)

\* x put behind every entry that is not greater: the sort is stable
RECURSIVE InsertSorted(_, _)
InsertSorted(sorted, x) ==
    IF sorted = <<>> THEN <<x>>
    ELSE IF KeyLess(x, Head(sorted)) THEN <<x>> \o sorted
    ELSE <<Head(sorted)>> \o InsertSorted(Tail(sorted), x)

\* sorted(contacts, key=lambda x: (x['last_name'], x['first_name']))
RECURSIVE SortContacts(_)
SortContacts(items) ==
    IF items = <<>> THEN <<>>
    ELSE InsertSorted(SortContacts(SubSeq(items, 1, Len(items) - 1)),
                      items[Len(items)])

\* The exception handle_sort_contacts raises on the file, or None.
SortContactsFault(file) ==
    CASE file.kind = "missing"   -> "FileNotFoundError"    \* open(input_file, 'r')
      [] file.kind = "not_utf8"  -> "UnicodeDecodeError"   \* json.load reads the text
      [] file.kind = "malformed" -> "JSONDecodeError"      \* json.load parses it
      [] file.kind = "number"    -> "TypeError"            \* sorted(): not iterable
      [] file.kind = "object"    -> "TypeError"            \* key(x) on a str key
      [] OTHER ->
            IF \E i \in 1..Len(file.items) : file.items[i].keys # ContactKeys
            THEN "KeyError"                                \* x['last_name']
            ELSE None

InitContacts ==
    /\ \E f \in ContactFiles :
          contacts = [pc |-> "start", file |-> f, exc |-> None,
                      written |-> <<>>, contacts_sorted |-> 0]
    /\ IdleRun
    /\ rd = IdleRead /\ fetch = IdleFetch
    /\ tickets = IdleTickets /\ logs = IdleLogs

\* handle_sort_contacts has no await: it runs from call to return or raise.
\* written is the list json.dump writes to /data/contacts-sorted.json.
SortContactsOp ==
    /\ contacts.pc = "start"
    /\ IF SortContactsFault(contacts.file) # None
       THEN contacts' = [contacts EXCEPT
                            !.pc = "raised",
                            !.exc = SortContactsFault(contacts.file)]
       ELSE contacts' = [contacts EXCEPT
                            !.pc = "returned",
                            !.written = SortContacts(contacts.file.items),
                            !.contacts_sorted = Len(contacts.file.items)]
    /\ UNCHANGED runVars
    /\ UNCHANGED <<rd, fetch, tickets, logs>>

NextContacts == SortContactsOp

SpecContacts == InitContacts /\ [][NextContacts]_vars

\* The faults handle_sort_contacts raises, put through the except clauses of
\* run_task: JSONDecodeError and UnicodeDecodeError are ValueErrors, which
\* lines 244-245 answer with 400, so this formula is violated.  It relates two
\* pieces of code and is not a behaviour of POST /run: line 241 fails before
\* any operation is called (HandleTaskMissing, NoOperationRuns).
SortContactsFaultsAre500 ==
    contacts.pc = "raised" => ExceptStatus(contacts.exc) = 500

====
